---- MODULE Spec2Model ----
(***************************************************************************)
(* bozon: the span primitive (crates/bozon-span) and the s-expression      *)
(* parser (crates/bozon-parser).  Characters are Unicode scalar values     *)
(* (naturals); an input is a sequence of characters.  A parser is an       *)
(* operator P(s, i): s the input, i the number of characters already       *)
(* consumed; it returns [ok, panic, pos, val].  A panic inside a parser    *)
(* unwinds through every combinator that called it.                        *)
(***************************************************************************)
EXTENDS Integers, Sequences, FiniteSets

VARIABLES input, rule, result, wsInput, wsResult, spanA, spanB, spanOut

vars == <<input, rule, result, wsInput, wsResult, spanA, spanB, spanOut>>

spanVars == <<spanA, spanB, spanOut>>

(***************************************************************************)
(* Characters named by the source.                                         *)
(***************************************************************************)
ChTab == 9

ChNewline == 10

ChReturn == 13

ChSpace == 32

ChDoubleQuote == 34

ChQuote == 39

ChLParen == 40

ChRParen == 41

ChComma == 44

ChAt == 64

ChLSquare == 91

ChRSquare == 93

ChBacktick == 96

ChLCurly == 123

ChRCurly == 125

\* The character of the tests' identifier "1".
ChDigitOne == 49

\* U+0080, the character the prefix test's note names: two bytes in UTF-8,
\* not whitespace.
ChU80 == 128

\* The no-break space U+00A0: whitespace for padded() and text::whitespace()
\* (char::is_whitespace), and not among the characters ident() excludes.
ChNoBreakSpace == 160

\* The largest value of the u16 length field of a Span.
U16Max == 65535

(***************************************************************************)
(* bozon-span                                                              *)
(***************************************************************************)
\* A span value.  The panic field records a call that did not return: "none"
\* for a span that was built, else which check of the source panicked.
SpanValue(start, len) == [panic |-> "none", start |-> start, len |-> len]

\* assert!(start <= end) failed.
AssertPanic == [panic |-> "assert", start |-> 0, len |-> 0]

\* try_into::<u16>().expect("oops, span out of range of u16 number :^(")
\* failed.
RangePanic == [panic |-> "u16", start |-> 0, len |-> 0]

\* Span::new: asserts start <= end, then converts end - start to u16.
SpanNew(start, end) ==
    IF start > end THEN AssertPanic
    ELSE IF end - start > U16Max THEN RangePanic
    ELSE SpanValue(start, end - start)

SpanStart(sp) == sp.start

SpanEnd(sp) == sp.start + sp.len

SpanLen(sp) == sp.len

\* impl From<Range<usize>> for Span
SpanFromRange(start, end) == SpanNew(start, end)

Min(a, b) == IF a < b THEN a ELSE b

\* SpanAdd with the start of the left operand instead of the smaller start.
SpanAddLeftStart(a, b) ==
    LET start == SpanStart(a)
        len == (IF SpanEnd(a) > SpanEnd(b) THEN SpanEnd(a) ELSE SpanEnd(b)) - start
    IN  IF len > U16Max THEN RangePanic ELSE SpanValue(start, len)

\* impl Add for Span: the smallest start, the largest end, the length
\* converted to u16.
SpanAdd(a, b) ==
    LET start == Min(SpanStart(a), SpanStart(b))
        len == (IF SpanEnd(a) > SpanEnd(b) THEN SpanEnd(a) ELSE SpanEnd(b)) - start
    IN  IF len > U16Max THEN RangePanic ELSE SpanValue(start, len)

(***************************************************************************)
(* Parser results and AST values (bozon_ast as the parser uses it).        *)
(***************************************************************************)
NoText == <<>>

NoItems == <<>>

Ok(pos, val) == [ok |-> TRUE, panic |-> FALSE, pos |-> pos, val |-> val]

Err(pos) == [ok |-> FALSE, panic |-> FALSE, pos |-> pos, val |-> "none"]

\* A parser call that did not return: a closure it ran panicked.
Unwind == [ok |-> FALSE, panic |-> TRUE, pos |-> 0, val |-> "none"]

Ident(text) == [tag |-> "Ident", text |-> text, items |-> NoItems, bracket |-> "None"]

String(text) == [tag |-> "String", text |-> text, items |-> NoItems, bracket |-> "None"]

List(items, bracket) == [tag |-> "List", text |-> NoText, items |-> items, bracket |-> bracket]

Atom(prefixKind, kind, span) == [prefix |-> prefixKind, kind |-> kind, span |-> span]

(***************************************************************************)
(* Primitive combinators.                                                  *)
(***************************************************************************)
\* char::is_whitespace, used by padded() and text::whitespace().
IsWhitespace(c) ==
    c \in (9..13) \cup {32, 133, 160, 5760} \cup (8192..8202)
          \cup {8232, 8233, 8239, 8287, 12288}

\* The position after the longest run of whitespace starting at i.
RECURSIVE SkipWhitespace(_, _)
SkipWhitespace(s, i) ==
    IF i < Len(s) /\ IsWhitespace(s[i + 1]) THEN SkipWhitespace(s, i + 1) ELSE i

\* just(c)
Just(s, i, c) ==
    IF i < Len(s) /\ s[i + 1] = c THEN Ok(i + 1, c) ELSE Err(i)

\* just(str) for a sequence of characters
JustSeq(s, i, cs) ==
    IF i + Len(cs) <= Len(s) /\ \A k \in 1..Len(cs) : s[i + k] = cs[k]
    THEN Ok(i + Len(cs), cs) ELSE Err(i)

\* none_of(excluded).repeated(): the position after the longest run of
\* characters outside excluded.
RECURSIVE NoneOfRepeated(_, _, _)
NoneOfRepeated(s, i, excluded) ==
    IF i < Len(s) /\ s[i + 1] \notin excluded
    THEN NoneOfRepeated(s, i + 1, excluded) ELSE i

\* The characters of s at offsets from..to-1.
Slice(s, from, to) == [k \in 1..(to - from) |-> s[from + k]]

\* Stream::span_since for a &str stream, whose token k has span k..k+1.
\* eoi is len..len+1.
SpanSince(s, start, offset) ==
    LET last == IF offset - 1 > start THEN offset - 1 ELSE start
    IN  [start |-> IF start < Len(s) THEN start ELSE Len(s),
         end |-> IF last < Len(s) THEN last + 1 ELSE Len(s) + 1]

(***************************************************************************)
(* Combinators over results.  Each takes the results of its operands, so   *)
(* that an operand is written once, as in the source.  A panic of an       *)
(* operand is the panic of the combinator: nothing after it runs.          *)
(***************************************************************************)
\* a.or(b): the first operand's result when it succeeded, else the second's.
Or(a, b) == IF a.ok \/ a.panic THEN a ELSE b

\* p.or_not(): a failure becomes a success that consumed nothing.
OrNot(i, r) == IF r.ok \/ r.panic THEN r ELSE Ok(i, "None")

\* r.map(|_| val)
MapTo(r, val) == IF r.ok THEN Ok(r.pos, val) ELSE r

\* The second half of padded(): whitespace is skipped after a success.
PaddedEnd(s, r) == IF r.ok THEN Ok(SkipWhitespace(s, r.pos), r.val) ELSE r

(***************************************************************************)
(* bozon-parser: the lexical rules.                                        *)
(***************************************************************************)
\* prefix(): the alternatives in the order the source lists them; or()
\* returns the first that succeeds.
prefix(s, i) ==
    Or(MapTo(Just(s, i, ChQuote), "Quote"),
       Or(MapTo(Just(s, i, ChBacktick), "QuasiQuote"),
          Or(MapTo(Just(s, i, ChComma), "Unquote"),
             MapTo(JustSeq(s, i, <<ChComma, ChAt>>), "UnquoteSplicing"))))

\* IdentExcluded without the carriage return.
IdentExcludedNoReturn ==
    {ChLParen, ChRParen, ChLSquare, ChRSquare, ChLCurly, ChRCurly,
     ChTab, ChNewline, ChSpace}

IdentExcluded ==
    {ChLParen, ChRParen, ChLSquare, ChRSquare, ChLCurly, ChRCurly,
     ChTab, ChNewline, ChReturn, ChSpace}

\* .repeated().at_least(1).collect::<String>().map(AtomKind::Ident), given
\* the end e of the run that starts at i.
IdentOfRun(s, i, e) ==
    IF e - i >= 1 THEN Ok(e, Ident(Slice(s, i, e))) ELSE Err(i)

\* ident(): none_of("()[]{}\t\n\r ").repeated().at_least(1)
ident(s, i) == IdentOfRun(s, i, NoneOfRepeated(s, i, IdentExcluded))

\* The closing quote of a string whose content starts at i and ends at e.
StringClose(s, i, e) ==
    IF Just(s, e, ChDoubleQuote).ok
    THEN Ok(e + 1, String(Slice(s, i, e))) ELSE Err(e)

\* string(): none_of("\"").repeated().delimited_by(just('"'), just('"'))
string(s, i) ==
    IF Just(s, i, ChDoubleQuote).ok
    THEN StringClose(s, i + 1, NoneOfRepeated(s, i + 1, {ChDoubleQuote}))
    ELSE Err(i)

(***************************************************************************)
(* bozon-parser: program().                                                *)
(***************************************************************************)
RECURSIVE sexp(_, _), sexpSeparated(_, _, _)

\* separated_by, after the separator: r is the result of the next item.
\* When the item fails the stream goes back to p, the end of the last item.
SeparatedNext(s, p, acc, r) ==
    IF r.ok THEN sexpSeparated(s, r.pos, Append(acc, r.val))
    ELSE IF r.panic THEN r
    ELSE Ok(p, acc)

\* l.separated_by(text::whitespace()) after an item that ended at p: a
\* separator (any run of whitespace, possibly empty), then an item.
sexpSeparated(s, p, acc) ==
    SeparatedNext(s, p, acc, sexp(s, SkipWhitespace(s, p)))

\* separated_by, its first item: at_least is 0, so no item is a success.
SeparatedFirst(s, i, r) ==
    IF r.ok THEN sexpSeparated(s, r.pos, <<r.val>>)
    ELSE IF r.panic THEN r
    ELSE Ok(i, <<>>)

\* l.separated_by(text::whitespace())
sexpList(s, i) == SeparatedFirst(s, i, sexp(s, i))

\* The items of a list, after its opening delimiter o (padded).
ListItems(s, o) ==
    IF o.ok THEN sexpList(s, SkipWhitespace(s, o.pos)) ELSE o

\* ListEnd with a closing delimiter that is not padded.
ListEndUnpadded(s, bracket, items, c) ==
    IF c.ok THEN Ok(c.pos, List(items, bracket)) ELSE c

\* .map(|lst| AtomKind::List(lst, bracket)), after the closing delimiter c
\* (padded).
ListEnd(s, bracket, items, c) ==
    IF c.ok THEN Ok(SkipWhitespace(s, c.pos), List(items, bracket)) ELSE c

\* The closing delimiter of a list, after its items.
ListClose(s, close, bracket, items) ==
    IF items.ok
    THEN ListEnd(s, bracket, items.val,
                 Just(s, SkipWhitespace(s, items.pos), close))
    ELSE items

\* l.separated_by(..).delimited_by(just(open).padded(), just(close).padded())
\*  .map(|lst| AtomKind::List(lst, bracket))
list(s, i, open, close, bracket) ==
    ListClose(s, close, bracket,
              ListItems(s, Just(s, SkipWhitespace(s, i), open)))

\* The body of an s-expression: the five alternatives in source order.
body(s, i) ==
    Or(list(s, i, ChLParen, ChRParen, "Round"),
       Or(list(s, i, ChLCurly, ChRCurly, "Curly"),
          Or(list(s, i, ChLSquare, ChRSquare, "Square"),
             Or(string(s, i), ident(s, i)))))

\* Stream::span_since as a range, converted by span.into()
SpanOfRange(r) == SpanFromRange(r.start, r.end)

\* The closure of map_with_span: span.into() runs as soon as the body has
\* succeeded, and a panic of Span::new there ends the whole parse, whatever
\* would have become of the atom.
AtomOfSpan(pos, prefixKind, kind, span) ==
    IF span.panic # "none" THEN Unwind ELSE Ok(pos, Atom(prefixKind, kind, span))

\* .map_with_span(|(prefix, kind), span| Atom { prefix, kind, span: span.into() })
\* for an s-expression that started at i, with prefix p and body b.
AtomWithSpan(s, i, p, b) ==
    IF b.ok
    THEN AtomOfSpan(b.pos, p.val, b.val, SpanOfRange(SpanSince(s, i, b.pos)))
    ELSE b

\* .then(body), after prefix().or_not() gave p.
ThenBody(s, i, p) == AtomWithSpan(s, i, p, body(s, p.pos))

\* prefix().or_not().then(body).map_with_span(..)
sexpAtom(s, i) == ThenBody(s, i, OrNot(i, prefix(s, i)))

\* sexp with padded() applied before map_with_span: the span of the atom
\* starts at the padding.
RespanFrom(i, r) ==
    IF r.ok
    THEN Ok(r.pos, Atom(r.val.prefix, r.val.kind, SpanFromRange(i, r.pos)))
    ELSE r

sexpSpanPadded(s, i) ==
    RespanFrom(i, PaddedEnd(s, sexpAtom(s, SkipWhitespace(s, i))))

\* sexp: the atom rule, padded()
sexp(s, i) == PaddedEnd(s, sexpAtom(s, SkipWhitespace(s, i)))

Panicked == [status |-> "Panic", val |-> "none"]

\* What Parser::parse returns to the caller: Ok(output) or Err(errors), or
\* the call panics.  The stream need not be at its end.
Outcome(r) ==
    IF r.panic THEN Panicked
    ELSE IF r.ok THEN [status |-> "Ok", val |-> r.val]
    ELSE [status |-> "Err", val |-> "none"]

\* program().parse(s)
program(s) == Outcome(sexpList(s, 0))

(***************************************************************************)
(* The lexical rules as the tests run them.                                *)
(***************************************************************************)
\* prefix().parse(s), ident().parse(s)
parseRule(r) == Outcome(r)

\* string().map_with_span(|kind, span| Atom::new(None, kind, span)).parse(s)
stringAtom(s) ==
    Outcome(AtomWithSpan(s, 0, Ok(0, "None"), string(s, 0)))

\* str::len of a text: the number of bytes of its UTF-8 encoding.
Utf8Width(c) == IF c < 128 THEN 1 ELSE IF c < 2048 THEN 2 ELSE IF c < 65536 THEN 3 ELSE 4

RECURSIVE Utf8Len(_)
Utf8Len(text) == IF text = <<>> THEN 0 ELSE Utf8Width(Head(text)) + Utf8Len(Tail(text))

(***************************************************************************)
(* Bounds and input sets.                                                  *)
(***************************************************************************)
MaxLen == 4

MaxLexLen == 3

MaxOffset == 2

ProgramAlphabet ==
    {ChLParen, ChRParen, ChLSquare, ChRSquare, ChLCurly, ChRCurly, ChSpace,
     ChNoBreakSpace, ChDigitOne, ChDoubleQuote, ChQuote, ChComma, ChAt, ChU80}

LexAlphabet ==
    {ChLParen, ChRParen, ChLSquare, ChRSquare, ChLCurly, ChRCurly,
     ChTab, ChNewline, ChReturn, ChSpace, ChNoBreakSpace,
     ChDoubleQuote, ChQuote, ChBacktick, ChComma, ChAt, ChDigitOne, ChU80}

\* Offsets used to build spans: small ones, the ones of the span_add test,
\* and the ones around the u16 limit.
SpanPoints ==
    (0..MaxOffset) \cup {10, 100, 1000, 10000}
        \cup {U16Max - 1 + d : d \in 0..MaxOffset}

Inputs(alphabet, n) == UNION {[1..k -> alphabet] : k \in 0..n}

NotRun == [status |-> "NotRun", val |-> "none"]

EmptySpan == SpanNew(0, 0)

(***************************************************************************)
(* The parser as a state machine: an input is chosen, then one rule is     *)
(* run on it.                                                              *)
(***************************************************************************)
InitWith(alphabet, n) ==
    /\ input \in Inputs(alphabet, n)
    /\ rule = "none"
    /\ result = NotRun
    /\ wsInput = <<>>
    /\ wsResult = NotRun
    /\ spanA = EmptySpan
    /\ spanB = EmptySpan
    /\ spanOut = EmptySpan

Init == InitWith(ProgramAlphabet, MaxLen)

InitLex == InitWith(LexAlphabet, MaxLexLen)

InitSpan == InitWith({}, 0)

RunProgram ==
    /\ rule = "none"
    /\ rule' = "program"
    /\ result' = program(input)
    /\ UNCHANGED <<input, wsInput, wsResult, spanVars>>

RunPrefix ==
    /\ rule = "none"
    /\ rule' = "prefix"
    /\ result' = parseRule(prefix(input, 0))
    /\ UNCHANGED <<input, wsInput, wsResult, spanVars>>

RunIdent ==
    /\ rule = "none"
    /\ rule' = "ident"
    /\ result' = parseRule(ident(input, 0))
    /\ UNCHANGED <<input, wsInput, wsResult, spanVars>>

RunString ==
    /\ rule = "none"
    /\ rule' = "string"
    /\ result' = stringAtom(input)
    /\ UNCHANGED <<input, wsInput, wsResult, spanVars>>

Next == RunProgram \/ RunPrefix

Spec == Init /\ [][Next]_vars

NextLex == RunPrefix \/ RunIdent \/ RunString

SpecLex == InitLex /\ [][NextLex]_vars

(***************************************************************************)
(* Whitespace insertion, as in the list_whitespaces test: a parsed input   *)
(* is parsed again with one whitespace character inserted at a token       *)
(* boundary.                                                               *)
(***************************************************************************)
PrefixText(p) ==
    CASE p = "Quote" -> <<ChQuote>>
      [] p = "QuasiQuote" -> <<ChBacktick>>
      [] p = "Unquote" -> <<ChComma>>
      [] p = "UnquoteSplicing" -> <<ChComma, ChAt>>
      [] OTHER -> <<>>

\* The offset of the last character of a span that is not whitespace.
LastInk(s, sp) ==
    LET ink == {k \in SpanStart(sp)..(SpanEnd(sp) - 1) : ~IsWhitespace(s[k + 1])}
    IN  CHOOSE k \in ink : \A j \in ink : j <= k

\* The offset at which the body of an atom starts.
BodyStart(s, a) ==
    LET p == SpanStart(a.span) + Len(PrefixText(a.prefix))
    IN  IF a.kind.tag = "List" THEN SkipWhitespace(s, p) ELSE p

\* The offsets at which a token (prefix marker, delimiter, identifier,
\* string literal) of the parsed atoms starts or ends.
RECURSIVE TokenBoundaries(_, _)
TokenBoundaries(s, atoms) ==
    UNION {
        LET a == atoms[k]
            b == BodyStart(s, a)
        IN  {SpanStart(a.span), SpanStart(a.span) + Len(PrefixText(a.prefix)), b}
            \cup (IF a.kind.tag = "List"
                  THEN {b + 1, LastInk(s, a.span), LastInk(s, a.span) + 1}
                       \cup TokenBoundaries(s, a.kind.items)
                  ELSE {SpanEnd(a.span)})
        : k \in 1..Len(atoms)}

\* The offsets strictly between the first and the last token.
InsertionPoints(s, atoms) ==
    LET bs == TokenBoundaries(s, atoms)
    IN  {k \in bs : (\E j \in bs : j < k) /\ (\E j \in bs : j > k)}

InsertAt(s, k, c) == SubSeq(s, 1, k) \o <<c>> \o SubSeq(s, k + 1, Len(s))

\* The offset at which program stops consuming the input.
Consumed(s) == sexpList(s, 0).pos

InsertWhitespace ==
    /\ rule = "program"
    /\ result.status = "Ok"
    /\ Consumed(input) = Len(input)
    /\ wsResult = NotRun
    /\ \E k \in InsertionPoints(input, result.val) :
       \E c \in {ChSpace, ChTab, ChNewline, ChReturn} :
           /\ wsInput' = InsertAt(input, k, c)
           /\ wsResult' = program(InsertAt(input, k, c))
    /\ UNCHANGED <<input, rule, result, spanVars>>

NextWs == RunProgram \/ InsertWhitespace

SpecWs == Init /\ [][NextWs]_vars

(***************************************************************************)
(* The span operations as a state machine: a span is built with Span::new, *)
(* a second one is converted from a range, and the two are merged.  A      *)
(* panic ends the program.                                                 *)
(***************************************************************************)
NoPanic == spanA.panic = "none" /\ spanB.panic = "none" /\ spanOut.panic = "none"

SpanNewOp ==
    /\ rule = "none"
    /\ \E start \in SpanPoints, end \in SpanPoints :
           spanA' = SpanNew(start, end)
    /\ rule' = "new"
    /\ UNCHANGED <<input, result, wsInput, wsResult, spanB, spanOut>>

SpanFromRangeOp ==
    /\ rule = "new"
    /\ NoPanic
    /\ \E start \in SpanPoints, end \in SpanPoints :
           spanB' = SpanFromRange(start, end)
    /\ rule' = "from"
    /\ UNCHANGED <<input, result, wsInput, wsResult, spanA, spanOut>>

SpanAddOp ==
    /\ rule = "from"
    /\ NoPanic
    /\ spanOut' = SpanAdd(spanA, spanB)
    /\ rule' = "add"
    /\ UNCHANGED <<input, result, wsInput, wsResult, spanA, spanB>>

NextSpan == SpanNewOp \/ SpanFromRangeOp \/ SpanAddOp

SpecSpan == InitSpan /\ [][NextSpan]_vars

(***************************************************************************)
(* Definitions used to state the claims.                                   *)
(***************************************************************************)
\* The atoms at any nesting depth of a sequence of atoms.
RECURSIVE AtomsOf(_)
AtomsOf(atoms) ==
    UNION {{atoms[k]} \cup AtomsOf(atoms[k].kind.items) : k \in 1..Len(atoms)}

\* A sequence of atoms without its spans.
RECURSIVE Shape(_)
Shape(atoms) ==
    [k \in 1..Len(atoms) |->
        [prefix |-> atoms[k].prefix, tag |-> atoms[k].kind.tag,
         text |-> atoms[k].kind.text, bracket |-> atoms[k].kind.bracket,
         items |-> Shape(atoms[k].kind.items)]]

\* The four whitespace characters the specification names.
SpecWhitespace == {ChSpace, ChTab, ChNewline, ChReturn}

\* The characters of the input an atom's span denotes.
SpanText(s, a) == Slice(s, SpanStart(a.span), SpanEnd(a.span))

ParsedProgram == rule = "program" /\ result.status = "Ok"

\* The result of re-running the lexical rule of an Ident or String atom on text.
Relex(a, text) == IF a.kind.tag = "Ident" THEN ident(text, 0) ELSE string(text, 0)

RelexSame(s, a) ==
    /\ Relex(a, SpanText(s, a)).ok
    /\ Relex(a, SpanText(s, a)).val = a.kind

(***************************************************************************)
(* C1.  Prefix longest-match: on an input that begins with ,@ followed by  *)
(* an atom, the prefix rule yields UnquoteSplicing, and program yields a   *)
(* first atom tagged UnquoteSplicing whose kind is that of the atom after  *)
(* the marker.                                                             *)
(***************************************************************************)
C1_PrefixLongestMatch ==
    (/\ Len(input) >= 3
     /\ input[1] = ChComma
     /\ input[2] = ChAt
     /\ body(input, 2).ok)
    => /\ rule = "prefix" => result = [status |-> "Ok", val |-> "UnquoteSplicing"]
       /\ rule = "program" =>
            /\ result.status = "Ok"
            /\ Len(result.val) >= 1
            /\ result.val[1].prefix = "UnquoteSplicing"
            /\ result.val[1].kind = body(input, 2).val

(***************************************************************************)
(* C2.  Span overflow is a recoverable error: no span operation (Span::new,*)
(* the conversion from a range, the merge) panics because a length does    *)
(* not fit 16 bits.                                                        *)
(***************************************************************************)
C2_OverflowRecoverable ==
    /\ spanA.panic # "u16"
    /\ spanB.panic # "u16"
    /\ spanOut.panic # "u16"

(***************************************************************************)
(* C3.  No partial output on failure: when program stops before a          *)
(* character that is not whitespace, because no alternative matches there, *)
(* it returns an error and no atoms.                                       *)
(***************************************************************************)
C3_NoPartialOutput ==
    (rule = "program" /\ SkipWhitespace(input, Consumed(input)) < Len(input))
    => result.status = "Err"

(***************************************************************************)
(* C4.  Whitespace insensitivity: a whitespace character inserted between  *)
(* two adjacent tokens of an input that program parses to its end leaves   *)
(* the parse successful and its atoms the same but for their spans.        *)
(***************************************************************************)
C4_WhitespaceInsensitive ==
    wsResult # NotRun =>
        /\ wsResult.status = "Ok"
        /\ Shape(wsResult.val) = Shape(result.val)

(***************************************************************************)
(* C5.  A prefix marker attaches to the atom that follows it, with or      *)
(* without whitespace in between: an input made of a marker p, a run of    *)
(* whitespace w and a body b (an input that alone parses to one unprefixed *)
(* atom covering all of it) parses to exactly one atom, with the prefix    *)
(* kind of p, the kind of b, and a span from the start of p to the end of  *)
(* b.                                                                      *)
(***************************************************************************)
Markers == {<<ChQuote>>, <<ChBacktick>>, <<ChComma>>, <<ChComma, ChAt>>}

MarkerKind(p) ==
    CASE p = <<ChQuote>> -> "Quote"
      [] p = <<ChBacktick>> -> "QuasiQuote"
      [] p = <<ChComma>> -> "Unquote"
      [] p = <<ChComma, ChAt>> -> "UnquoteSplicing"

\* b alone parses to one unprefixed atom that covers all of b.
IsBody(b) ==
    /\ b # <<>>
    /\ program(b).status = "Ok"
    /\ Len(program(b).val) = 1
    /\ program(b).val[1].prefix = "None"
    /\ program(b).val[1].span = SpanNew(0, Len(b))

\* The input is p, then whitespace up to offset j, then a body.  The marker
\* , is not the marker of an input that starts with ,@.
IsMarkedBody(s, p, j) ==
    /\ Len(p) <= j
    /\ j < Len(s)
    /\ Slice(s, 0, Len(p)) = p
    /\ ~(p = <<ChComma>> /\ s[2] = ChAt)
    /\ \A k \in (Len(p) + 1)..j : s[k] \in SpecWhitespace
    /\ IsBody(Slice(s, j, Len(s)))

C5_PrefixAttaches ==
    rule = "program" =>
        \A p \in Markers : \A j \in 1..Len(input) :
            IsMarkedBody(input, p, j) =>
                /\ result.status = "Ok"
                /\ Len(result.val) = 1
                /\ result.val[1].prefix = MarkerKind(p)
                /\ Shape(<<result.val[1]>>)[1].items
                     = Shape(program(Slice(input, j, Len(input))).val)[1].items
                /\ result.val[1].kind.tag
                     = program(Slice(input, j, Len(input))).val[1].kind.tag
                /\ result.val[1].kind.text
                     = program(Slice(input, j, Len(input))).val[1].kind.text
                /\ result.val[1].kind.bracket
                     = program(Slice(input, j, Len(input))).val[1].kind.bracket
                /\ result.val[1].span = SpanNew(0, Len(input))

(***************************************************************************)
(* C6.  String literal span length: when the string rule succeeds with     *)
(* content s, the atom's span starts at the opening quote and its length   *)
(* is the byte length of s plus 2.                                         *)
(***************************************************************************)
C6_StringSpanLength ==
    (rule = "string" /\ result.status = "Ok") =>
        /\ SpanStart(result.val.span) = 0
        /\ SpanLen(result.val.span) = Utf8Len(result.val.kind.text) + 2

(***************************************************************************)
(* C7.  Span merge laws: when the union of two spans fits the length       *)
(* bound, a + b starts at the smaller start and ends at the larger end,    *)
(* a + b = b + a, a + a = a, and merging a span with one it contains gives *)
(* the containing span.                                                    *)
(***************************************************************************)
Max(a, b) == IF a > b THEN a ELSE b

UnionFits(a, b) ==
    Max(SpanEnd(a), SpanEnd(b)) - Min(SpanStart(a), SpanStart(b)) <= U16Max

Contains(a, b) == SpanStart(a) <= SpanStart(b) /\ SpanEnd(b) <= SpanEnd(a)

C7_MergeLaws ==
    (rule = "add" /\ UnionFits(spanA, spanB)) =>
        /\ spanOut.panic = "none"
        /\ SpanStart(spanOut) = Min(SpanStart(spanA), SpanStart(spanB))
        /\ SpanEnd(spanOut) = Max(SpanEnd(spanA), SpanEnd(spanB))
        /\ SpanAdd(spanB, spanA) = spanOut
        /\ SpanAdd(spanA, spanA) = spanA
        /\ SpanAdd(spanB, spanB) = spanB
        /\ Contains(spanA, spanB) => spanOut = spanA
        /\ Contains(spanB, spanA) => spanOut = spanB

\* The span_add test: 10..10000 merged with 100..1000.
C7_Witness ==
    /\ rule = "add"
    /\ spanA = SpanValue(10, 9990)
    /\ spanB = SpanValue(100, 900)
    /\ spanOut = SpanValue(10, 9990)

(***************************************************************************)
(* C8.  Idempotent re-lexing, as the claim states it: for every Ident or   *)
(* String atom of a successful parse, with or without a prefix, the ident  *)
(* or string rule run on the text its span denotes succeeds and gives the  *)
(* atom's kind.                                                            *)
(***************************************************************************)
C8_RelexAll ==
    ParsedProgram =>
        \A a \in AtomsOf(result.val) :
            a.kind.tag \in {"Ident", "String"} => RelexSame(input, a)

(***************************************************************************)
(* C8, amended.  For every Ident or String atom without a prefix, at any   *)
(* nesting depth of a successful parse, the ident or string rule run on    *)
(* the characters its span denotes succeeds and gives the atom's kind.     *)
(***************************************************************************)
C8_RelexUnprefixed ==
    ParsedProgram =>
        \A a \in AtomsOf(result.val) :
            (a.kind.tag \in {"Ident", "String"} /\ a.prefix = "None")
                => RelexSame(input, a)

\* A list that holds an unprefixed string literal, re-lexed to the same kind.
C8_Witness ==
    /\ ParsedProgram
    /\ \E l \in AtomsOf(result.val) :
           /\ l.kind.tag = "List"
           /\ \E k \in 1..Len(l.kind.items) :
                  /\ l.kind.items[k].kind.tag = "String"
                  /\ l.kind.items[k].prefix = "None"
                  /\ RelexSame(input, l.kind.items[k])

(***************************************************************************)
(* C9.  List span.                                                         *)
(***************************************************************************)
OpenOf(bracket) ==
    CASE bracket = "Round" -> ChLParen
      [] bracket = "Curly" -> ChLCurly
      [] bracket = "Square" -> ChLSquare

CloseOf(bracket) ==
    CASE bracket = "Round" -> ChRParen
      [] bracket = "Curly" -> ChRCurly
      [] bracket = "Square" -> ChRSquare

\* The items lie in order between the offsets from and to, and every
\* character between from and to outside their spans is whitespace.
ChildrenCover(s, from, to, items) ==
    \A k \in 1..(Len(items) + 1) :
        LET gapStart == IF k = 1 THEN from ELSE SpanEnd(items[k - 1].span)
            gapEnd == IF k = Len(items) + 1 THEN to ELSE SpanStart(items[k].span)
        IN  /\ gapStart <= gapEnd
            /\ \A j \in gapStart..(gapEnd - 1) : IsWhitespace(s[j + 1])

\* The span of an Ident or String atom denotes exactly its text: its prefix
\* marker, if any, then the identifier or the quoted literal.
ExactText(s, a) ==
    SpanText(s, a) =
        PrefixText(a.prefix)
            \o (IF a.kind.tag = "Ident" THEN a.kind.text
                ELSE <<ChDoubleQuote>> \o a.kind.text \o <<ChDoubleQuote>>)

\* The offset of the closing delimiter of a list atom: the last character of
\* its span that is not whitespace.
CloseOffset(s, a) == LastInk(s, a.span)

\* The span of list atom a: it starts at the opening delimiter, its last
\* character that is not whitespace is the closing delimiter, it ends at
\* offset end, and its children lie between the delimiters.
ListSpan(s, a, end) ==
    LET o == SpanStart(a.span)
        c == CloseOffset(s, a)
    IN  /\ s[o + 1] = OpenOf(a.kind.bracket)
        /\ o < c
        /\ s[c + 1] = CloseOf(a.kind.bracket)
        /\ SpanEnd(a.span) = end
        /\ ChildrenCover(s, o + 1, c, a.kind.items)
        /\ \A k \in 1..Len(a.kind.items) :
               a.kind.items[k].kind.tag \in {"Ident", "String"}
                   => ExactText(s, a.kind.items[k])
        /\ (a.kind.items = <<>>) <=> (\A j \in (o + 1)..(c - 1) : IsWhitespace(s[j + 1]))

UnprefixedLists(atoms) ==
    {a \in AtomsOf(atoms) : a.kind.tag = "List" /\ a.prefix = "None"}

(***************************************************************************)
(* C9, as the claim states it: the span of every unprefixed List atom      *)
(* starts at its opening delimiter and ends immediately after its closing  *)
(* delimiter, covers the whitespace between them, and holds its children,  *)
(* each Ident or String child's span covering exactly the child's text; an *)
(* empty list has no children.                                             *)
(***************************************************************************)
C9_ListSpanEndsAtDelimiter ==
    ParsedProgram =>
        \A a \in UnprefixedLists(result.val) :
            ListSpan(input, a, CloseOffset(input, a) + 1)

(***************************************************************************)
(* C9, amended.  As above, but the span ends after the whitespace that     *)
(* follows the closing delimiter (immediately after the delimiter when no  *)
(* whitespace follows it).                                                 *)
(***************************************************************************)
C9_ListSpanWithPadding ==
    ParsedProgram =>
        \A a \in UnprefixedLists(result.val) :
            ListSpan(input, a, SkipWhitespace(input, CloseOffset(input, a) + 1))

\* A list with one identifier child, followed by whitespace that its span
\* includes.
C9_Witness ==
    /\ ParsedProgram
    /\ \E a \in UnprefixedLists(result.val) :
           /\ Len(a.kind.items) = 1
           /\ a.kind.items[1].kind.tag = "Ident"
           /\ SpanEnd(a.span) > LastInk(input, a.span) + 1

(***************************************************************************)
(* C10.  Identifier rule: ident succeeds exactly when the input's first    *)
(* character is none of space, tab, newline, carriage return and the six   *)
(* brackets, and then returns the longest leading run of such characters;  *)
(* otherwise it fails.                                                     *)
(***************************************************************************)
SpecExcluded ==
    SpecWhitespace
        \cup {ChLParen, ChRParen, ChLSquare, ChRSquare, ChLCurly, ChRCurly}

C10_IdentRule ==
    rule = "ident" =>
        /\ result.status \in {"Ok", "Err"}
        /\ (result.status = "Ok") <=> (input # <<>> /\ input[1] \notin SpecExcluded)
        /\ result.status = "Ok" =>
             LET t == result.val.text
             IN  /\ result.val = Ident(t)
                 /\ Len(t) >= 1
                 /\ Len(t) <= Len(input)
                 /\ t = Slice(input, 0, Len(t))
                 /\ \A k \in 1..Len(t) : t[k] \notin SpecExcluded
                 /\ Len(t) = Len(input) \/ input[Len(t) + 1] \in SpecExcluded

\* An identifier of two characters followed by an excluded character.
C10_Witness ==
    /\ rule = "ident"
    /\ result.status = "Ok"
    /\ Len(input) = 3
    /\ Len(result.val.text) = 2
    /\ input[3] \in SpecExcluded

====
